---------------------------- MODULE Spec2Model ----------------------------
(***************************************************************************)
(* A model of s3kv (src/s3kv/s3kv.py): a key-value store kept in an S3     *)
(* bucket, with a local file cache under /tmp/s3kv_cache that is written  *)
(* on every write through the store and swept by age on cached reads.      *)
(*                                                                         *)
(* The bucket is a map from object keys (strings) to objects (body, tag    *)
(* set); the cache directory is a map from file names "<key>.json" to      *)
(* files (text, mtime).  Python values and JSON texts are kept apart:      *)
(* json.dumps turns the first into the second, json.loads the second into  *)
(* the first, and neither is the identity.                                 *)
(***************************************************************************)
EXTENDS Integers, Sequences, FiniteSets, TLC

VARIABLES
    s3,         \* the bucket: object key -> NoObj or [body, tags, legal_hold,
                \* retention]
    cache,      \* /tmp/s3kv_cache: file name -> NoFile or [text, mtime]
    now,        \* time.time(), in seconds
    ticks,      \* how many times the clock has been advanced
    last,       \* the last call: what was called, with what, and how it ended
    hist,       \* per key: what has happened to it since its last add / delete
    lastWrite,  \* per key: the text last written to it through the store
    lastTags,   \* per key: the tag set last given to its object by tag_key
    lastLock,   \* per key: the legal hold status last set on its object, and
                \* the retention its last place_retention_lock replaced
    procs,      \* per caller: the call it is in the middle of, or Idle
    cacheDir    \* whether the directory /tmp/s3kv_cache exists

vars == <<s3, cache, now, ticks, last, hist, lastWrite, lastTags, lastLock,
         procs, cacheDir>>

---------------------------------------------------------------------------
(* Bounds of the model. *)

\* The clock is advanced at most this many times.
MaxTicks == 2

\* merge_keys is called with at most this many source keys.
MaxSources == 2

\* A listing of the bucket returns at most this many objects (one page; the
\* backend's own page size is 1000, the model scales it down).
MaxKeysPerPage == 2

\* A caller makes at most this many calls.
MaxCalls == 2

---------------------------------------------------------------------------
(* Program constants. *)

\* clear_old_cache(self, max_days: int = 7)
DefaultMaxDays == 7

\* file_age > max_days * 86400
SecondsPerDay == 86400

\* f"s3kv/{key}.json"
Namespace == "s3kv/"
Extension == ".json"

\* '/tmp/s3kv_cache/{key}.json'
CacheFileName(key) == key \o Extension

\* obj['Key'][5:-5]
SliceFrom == 5
SliceTo == 5

---------------------------------------------------------------------------
(* Strings. *)

\* str.startswith / the backend's Prefix= filter
StartsWith(s, p) == Len(p) <= Len(s) /\ SubSeq(s, 1, Len(p)) = p

\* str.endswith
EndsWith(s, suf) ==
    Len(suf) <= Len(s) /\ SubSeq(s, Len(s) - Len(suf) + 1, Len(s)) = suf

\* s[5:-5]: drops the first five and the last five characters; empty when
\* the string has ten characters or fewer.
Slice(s) ==
    IF Len(s) <= SliceFrom + SliceTo THEN ""
    ELSE SubSeq(s, SliceFrom + 1, Len(s) - SliceTo)

\* _get_object_key
GetObjectKey(key) == Namespace \o key \o Extension

---------------------------------------------------------------------------
(* Python values and JSON texts.                                           *)
(*                                                                         *)
(* A Python value is None or a dict.  A dict maps keys to integers; a key  *)
(* is a str or an int, written [kt |-> "str" | "int", repr |-> its text].  *)
(* A JSON text is an object: a map from member names (strings) to numbers. *)

PyNone == [t |-> "None"]
PyDict(items) == [t |-> "dict", items |-> items]
StrKey(s) == [kt |-> "str", repr |-> s]
IntKey(s) == [kt |-> "int", repr |-> s]
EmptyMap == [x \in {} |-> 0]

JsonObject(members) == [t |-> "object", members |-> members]

\* json.dumps: every key of the dict becomes a member name, a string; an
\* int key is written as its decimal text.
JsonDumps(v) ==
    LET names == {k.repr : k \in DOMAIN v.items}
    IN  JsonObject([n \in names |->
            v.items[CHOOSE k \in DOMAIN v.items : k.repr = n]])

\* json.loads: every member name becomes a str key.
JsonLoads(text) ==
    PyDict([k \in {StrKey(n) : n \in DOMAIN text.members} |->
                text.members[k.repr]])

\* bool(value): None and the empty dict are falsy.
Truthy(v) == v.t = "dict" /\ DOMAIN v.items # {}

\* An update that keeps the destination's value of a field both have.
DictUpdateKeepingOld(dst, src) ==
    PyDict([k \in DOMAIN dst.items \cup DOMAIN src.items |->
                IF k \in DOMAIN dst.items THEN dst.items[k] ELSE src.items[k]])

\* dict.update: the fields of src are added to dst, overwriting.
DictUpdate(dst, src) ==
    PyDict([k \in DOMAIN dst.items \cup DOMAIN src.items |->
                IF k \in DOMAIN src.items THEN src.items[k] ELSE dst.items[k]])

---------------------------------------------------------------------------
(* The inputs the model draws from. *)

\* Logical keys.
AllKeys == {"a.1", "a.2", "b.1"}

\* Values handed to add: {"x": 1}, {"x": 2, "y": 3}, {} and {1: 1}, the last
\* a dict with an int key, which json.dumps accepts.
Va == PyDict([k \in {StrKey("x")} |-> 1])
Vb == PyDict([k \in {StrKey("x"), StrKey("y")} |-> IF k.repr = "x" THEN 2 ELSE 3])
V0 == PyDict(EmptyMap)
Vi == PyDict([k \in {IntKey("1")} |-> 1])
AddValues == {Va, Vb, V0, Vi}

\* Defaults handed to get: None (the parameter's default) and a document.
Vd == PyDict([k \in {StrKey("d")} |-> 0])
Defaults == {PyNone, Vd}

\* The text another writer of the bucket puts under a key.
ExternalTexts == {JsonDumps(Vb)}

\* Tag sets handed to tag_key: {"env": "prod"}, {"env": "dev"} and {}.
TagProd == [n \in {"env"} |-> "prod"]
TagDev == [n \in {"env"} |-> "dev"]
NoTags == [n \in {} |-> ""]
TagSets == {TagProd, TagDev, NoTags}

\* Objects of the bucket that lie outside the store's namespace.
ForeignObjectKeys == {"logs/b.json"}

\* Prefixes handed to list_keys_with_prefix.
Prefixes == {"a", "b", "s3kv/a", "s3kv/", ""}

\* Clock advances: one second, and the default maximum age of an entry.
TickSteps == {1, DefaultMaxDays * SecondsPerDay}

\* max_days handed to an explicit clear_old_cache: the default, and 1 as in
\* src/test.py.
MaxDaysArgs == {DefaultMaxDays, 1}

ObjectKeys == {GetObjectKey(k) : k \in AllKeys} \cup ForeignObjectKeys
CacheFiles == {CacheFileName(k) : k \in AllKeys}

---------------------------------------------------------------------------
(* The bucket and the cache directory. *)

NoObj == [t |-> "NoSuchKey"]
NoFile == [t |-> "NoFile"]

\* An object on which no legal hold status was ever set, and one without a
\* retention.
NoHold == [t |-> "NoLegalHold"]
NoRetention == [t |-> "NoRetention"]

\* Nothing was done to the legal hold or the retention of a key's object.
NoLockHist == [hold |-> NoHold, replaced |-> NoRetention]

\* The callers sharing the bucket and the cache directory, and a caller that
\* has made no call yet.
Callers == {"c1", "c2"}
Idle == [pc |-> "idle", calls |-> 0]

\* put_object creates a new object: the body given, no tags, no legal hold
\* status and no retention.
NewObject(text) ==
    [t |-> "object", body |-> text, tags |-> NoTags,
     legal_hold |-> NoHold, retention |-> NoRetention]

\* open(path, 'w') + json.dump: a file with the text, modified now.
NewFile(text) == [t |-> "file", text |-> text, mtime |-> now]

\* os.path.exists
Exists(file) == cache[file] # NoFile

\* The sweep removing a file already when its age has reached max_days.
SweptAtMaxAge(dir, max_days) ==
    [f \in DOMAIN dir |->
        IF dir[f] # NoFile /\ now - dir[f].mtime >= max_days * SecondsPerDay
        THEN NoFile ELSE dir[f]]

\* clear_old_cache's loop: a file is removed when its age is greater than
\* max_days * 86400 seconds.
Swept(dir, max_days) ==
    [f \in DOMAIN dir |->
        IF dir[f] # NoFile /\ now - dir[f].mtime > max_days * SecondsPerDay
        THEN NoFile ELSE dir[f]]

\* get reading the cache file instead of the bucket.
GetValueCacheOnly(key, default) ==
    IF cache[CacheFileName(key)] = NoFile THEN default
    ELSE JsonLoads(cache[CacheFileName(key)].text)

\* What get returns in the current state.
GetValue(key, default) ==
    IF s3[GetObjectKey(key)] = NoObj THEN default
    ELSE JsonLoads(s3[GetObjectKey(key)].body)

\* The record of a call.
Call(op, key, arg, ok, err, ret) ==
    [op |-> op, key |-> key, arg |-> arg, ok |-> ok, err |-> err, ret |-> ret]

NoHist == [kind |-> "none"]

TypeOK ==
    /\ DOMAIN s3 = ObjectKeys
    /\ DOMAIN cache = CacheFiles
    /\ now \in Nat
    /\ ticks \in 0..MaxTicks
    /\ DOMAIN hist = AllKeys
    /\ DOMAIN lastWrite = AllKeys
    /\ DOMAIN lastTags = AllKeys
    /\ DOMAIN lastLock = AllKeys
    /\ DOMAIN procs = Callers
    /\ cacheDir \in BOOLEAN

Init ==
    /\ s3 = [o \in ObjectKeys |-> NoObj]
    /\ cache = [f \in CacheFiles |-> NoFile]
    /\ now = 0
    /\ ticks = 0
    /\ last = [op |-> "init"]
    /\ hist = [k \in AllKeys |-> NoHist]
    /\ lastWrite = [k \in AllKeys |-> NoObj]
    /\ lastTags = [k \in AllKeys |-> NoObj]
    /\ lastLock = [k \in AllKeys |-> NoLockHist]
    /\ procs = [c \in Callers |-> Idle]
    /\ cacheDir = TRUE

---------------------------------------------------------------------------
(* What the model remembers of a key's history, for the claims. *)

\* After a successful add(key, value): the value, when the cache entry was
\* written, and that nothing but the sweep of get_from_cache has touched the
\* cache entry since.
Added(value) == [kind |-> "added", v |-> value, at |-> now, pristine |-> TRUE]

\* After a successful delete(key): whether there was an object, and a cache
\* entry, to delete.
Deleted(key) ==
    [kind |-> "deleted",
     had |-> s3[GetObjectKey(key)] # NoObj /\ cache[CacheFileName(key)] # NoFile]

\* An explicit call removed or may have removed the key's cache entry.
Touched(h) ==
    IF h.kind \in {"added", "overwritten"} THEN [h EXCEPT !.pristine = FALSE]
    ELSE h

\* Another writer overwrote the object of a key added through the store.
Overwritten(h, text) ==
    IF h.kind \in {"added", "overwritten"}
    THEN [kind |-> "overwritten", v |-> h.v, at |-> h.at,
          pristine |-> h.pristine, text2 |-> text]
    ELSE NoHist

---------------------------------------------------------------------------
(* The store's operations. *)

\* add that writes the cache file before it calls the backend.
AddCacheFirst(key, value, put_ok, open_ok) ==
    LET text == JsonDumps(value)
    IN  IF ~open_ok
        THEN /\ last' = Call("add", key, value, FALSE, "cache", PyNone)
             /\ UNCHANGED <<s3, cache, now, ticks, hist, lastWrite, lastTags,
                            lastLock, procs, cacheDir>>
        ELSE /\ cache' = [cache EXCEPT ![CacheFileName(key)] = NewFile(text)]
             /\ IF ~put_ok
                THEN /\ last' = Call("add", key, value, FALSE, "backend", PyNone)
                     /\ UNCHANGED <<s3, hist, lastWrite, lastTags,
                                    lastLock, procs, cacheDir>>
                ELSE /\ s3' = [s3 EXCEPT ![GetObjectKey(key)] = NewObject(text)]
                     /\ last' = Call("add", key, value, TRUE, "none", PyNone)
                     /\ hist' = [hist EXCEPT ![key] = Added(value)]
                     /\ lastWrite' = [lastWrite EXCEPT ![key] = text]
                     /\ lastTags' = [lastTags EXCEPT ![key] = NoObj]
                     /\ lastLock' = [lastLock EXCEPT ![key] = NoLockHist]
             /\ UNCHANGED <<now, ticks, procs, cacheDir>>

\* add: put_object, then the cache file.  put_ok: the backend accepts the
\* write; open_ok: the cache file can be written.
Add(key, value, put_ok, open_ok) ==
    LET text == JsonDumps(value)
    IN  IF ~put_ok
        THEN /\ last' = Call("add", key, value, FALSE, "backend", PyNone)
             /\ UNCHANGED <<s3, cache, now, ticks, hist, lastWrite, lastTags,
                            lastLock, procs, cacheDir>>
        ELSE /\ s3' = [s3 EXCEPT ![GetObjectKey(key)] = NewObject(text)]
             /\ lastTags' = [lastTags EXCEPT ![key] = NoObj]
             /\ lastLock' = [lastLock EXCEPT ![key] = NoLockHist]
             /\ IF ~open_ok
                THEN /\ last' = Call("add", key, value, FALSE, "cache", PyNone)
                     /\ hist' = [hist EXCEPT ![key] = NoHist]
                     /\ UNCHANGED <<cache, lastWrite>>
                ELSE /\ cache' = [cache EXCEPT ![CacheFileName(key)] = NewFile(text)]
                     /\ last' = Call("add", key, value, TRUE, "none", PyNone)
                     /\ hist' = [hist EXCEPT ![key] = Added(value)]
                     /\ lastWrite' = [lastWrite EXCEPT ![key] = text]
             /\ UNCHANGED <<now, ticks, procs, cacheDir>>

\* delete that leaves the cache file in place.
DeleteObjectOnly(key, delete_ok) ==
    IF ~delete_ok
    THEN /\ last' = Call("delete", key, PyNone, FALSE, "backend", PyNone)
         /\ UNCHANGED <<s3, cache, now, ticks, hist, lastWrite, lastTags,
                        lastLock, procs, cacheDir>>
    ELSE /\ s3' = [s3 EXCEPT ![GetObjectKey(key)] = NoObj]
         /\ last' = Call("delete", key, PyNone, TRUE, "none", PyNone)
         /\ hist' = [hist EXCEPT ![key] = Deleted(key)]
         /\ lastWrite' = [lastWrite EXCEPT ![key] = NoObj]
         /\ lastTags' = [lastTags EXCEPT ![key] = NoObj]
         /\ lastLock' = [lastLock EXCEPT ![key] = NoLockHist]
         /\ UNCHANGED <<cache, now, ticks, procs, cacheDir>>

\* delete that removes the cache file before it calls the backend.
DeleteCacheFirst(key, delete_ok) ==
    /\ cache' = [cache EXCEPT ![CacheFileName(key)] = NoFile]
    /\ IF ~delete_ok
       THEN /\ last' = Call("delete", key, PyNone, FALSE, "backend", PyNone)
            /\ UNCHANGED <<s3, now, ticks, hist, lastWrite, lastTags,
                           lastLock, procs, cacheDir>>
       ELSE /\ s3' = [s3 EXCEPT ![GetObjectKey(key)] = NoObj]
            /\ last' = Call("delete", key, PyNone, TRUE, "none", PyNone)
            /\ hist' = [hist EXCEPT ![key] = Deleted(key)]
            /\ lastWrite' = [lastWrite EXCEPT ![key] = NoObj]
            /\ lastTags' = [lastTags EXCEPT ![key] = NoObj]
            /\ lastLock' = [lastLock EXCEPT ![key] = NoLockHist]
            /\ UNCHANGED <<now, ticks, procs, cacheDir>>

\* delete: delete_object, then the cache file if it exists.
Delete(key, delete_ok) ==
    IF ~delete_ok
    THEN /\ last' = Call("delete", key, PyNone, FALSE, "backend", PyNone)
         /\ UNCHANGED <<s3, cache, now, ticks, hist, lastWrite, lastTags,
                        lastLock, procs, cacheDir>>
    ELSE /\ s3' = [s3 EXCEPT ![GetObjectKey(key)] = NoObj]
         /\ cache' = [cache EXCEPT ![CacheFileName(key)] = NoFile]
         /\ last' = Call("delete", key, PyNone, TRUE, "none", PyNone)
         /\ hist' = [hist EXCEPT ![key] = Deleted(key)]
         /\ lastWrite' = [lastWrite EXCEPT ![key] = NoObj]
         /\ lastTags' = [lastTags EXCEPT ![key] = NoObj]
         /\ lastLock' = [lastLock EXCEPT ![key] = NoLockHist]
         /\ UNCHANGED <<now, ticks, procs, cacheDir>>

\* get: get_object and json.loads, the default on NoSuchKey.
Get(key, default) ==
    /\ last' = Call("get", key, default, TRUE, "none", GetValue(key, default))
    /\ UNCHANGED <<s3, cache, now, ticks, hist, lastWrite, lastTags,
                   lastLock, procs, cacheDir>>

\* get_from_cache sweeping only the file of the key asked for.
GetFromCacheSweepingKey(key) ==
    LET swept == Swept(cache, DefaultMaxDays)
        file == swept[CacheFileName(key)]
    IN  /\ cache' = [cache EXCEPT ![CacheFileName(key)] = file]
        /\ last' = Call("get_from_cache", key, PyNone, TRUE, "none",
                        IF file # NoFile THEN JsonLoads(file.text) ELSE PyNone)
        /\ UNCHANGED <<s3, now, ticks, hist, lastWrite, lastTags,
                       lastLock, procs, cacheDir>>

\* get_from_cache: clear_old_cache(), then the file if it exists.
GetFromCache(key) ==
    LET swept == Swept(cache, DefaultMaxDays)
        file == swept[CacheFileName(key)]
    IN  /\ cache' = swept
        /\ last' = Call("get_from_cache", key, PyNone, TRUE, "none",
                        IF file # NoFile THEN JsonLoads(file.text) ELSE PyNone)
        /\ UNCHANGED <<s3, now, ticks, hist, lastWrite, lastTags,
                       lastLock, procs, cacheDir>>

\* clear_cache: rmtree and makedirs.
ClearCache ==
    /\ cache' = [f \in DOMAIN cache |-> NoFile]
    /\ last' = Call("clear_cache", "", PyNone, TRUE, "none", PyNone)
    /\ hist' = [k \in AllKeys |-> Touched(hist[k])]
    /\ UNCHANGED <<s3, now, ticks, lastWrite, lastTags,
                   lastLock, procs, cacheDir>>

\* clear_old_cache, called by the user.
ClearOldCache(max_days) ==
    LET swept == Swept(cache, max_days)
    IN  /\ cache' = swept
        /\ last' = Call("clear_old_cache", "", max_days, TRUE, "none", PyNone)
        /\ hist' = [k \in AllKeys |->
                        IF swept[CacheFileName(k)] # cache[CacheFileName(k)]
                        THEN Touched(hist[k]) ELSE hist[k]]
        /\ UNCHANGED <<s3, now, ticks, lastWrite, lastTags,
                       lastLock, procs, cacheDir>>

\* clear_cache_for_key
ClearCacheForKey(key) ==
    /\ cache' = [cache EXCEPT ![CacheFileName(key)] = NoFile]
    /\ last' = Call("clear_cache_for_key", key, PyNone, TRUE, "none", PyNone)
    /\ hist' = [hist EXCEPT ![key] = Touched(hist[key])]
    /\ UNCHANGED <<s3, now, ticks, lastWrite, lastTags,
                   lastLock, procs, cacheDir>>

\* copy_key writing the value read from the bucket to the destination's
\* cache file, whether the source has a cache file or not.
CopyKeyCachingValue(source_key, destination_key) ==
    LET src == s3[GetObjectKey(source_key)]
        dfile == CacheFileName(destination_key)
    IN  IF src = NoObj
        THEN /\ last' = Call("copy_key", source_key, destination_key,
                             FALSE, "NoSuchKey", PyNone)
             /\ UNCHANGED <<s3, cache, now, ticks, hist, lastWrite, lastTags,
                            lastLock, procs, cacheDir>>
        ELSE /\ s3' = [s3 EXCEPT ![GetObjectKey(destination_key)] =
                                        NewObject(src.body)]
             /\ lastTags' = [lastTags EXCEPT ![destination_key] = NoObj]
             /\ lastLock' = [lastLock EXCEPT ![destination_key] = NoLockHist]
             /\ hist' = [hist EXCEPT ![destination_key] = NoHist]
             /\ cache' = [cache EXCEPT ![dfile] = NewFile(src.body)]
             /\ last' = Call("copy_key", source_key, destination_key,
                             TRUE, "none", PyNone)
             /\ lastWrite' = [lastWrite EXCEPT ![destination_key] = src.body]
             /\ UNCHANGED <<now, ticks, procs, cacheDir>>

\* copy_key: get_object of the source (NoSuchKey is not caught), put_object
\* of the destination, then shutil.copy of the source's cache file if it
\* exists; shutil.copy of a file onto itself raises SameFileError.
CopyKey(source_key, destination_key) ==
    LET src == s3[GetObjectKey(source_key)]
        sfile == CacheFileName(source_key)
        dfile == CacheFileName(destination_key)
    IN  IF src = NoObj
        THEN /\ last' = Call("copy_key", source_key, destination_key,
                             FALSE, "NoSuchKey", PyNone)
             /\ UNCHANGED <<s3, cache, now, ticks, hist, lastWrite, lastTags,
                            lastLock, procs, cacheDir>>
        ELSE /\ s3' = [s3 EXCEPT ![GetObjectKey(destination_key)] =
                                        NewObject(src.body)]
             /\ lastTags' = [lastTags EXCEPT ![destination_key] = NoObj]
             /\ lastLock' = [lastLock EXCEPT ![destination_key] = NoLockHist]
             /\ hist' = [hist EXCEPT ![destination_key] = NoHist]
             /\ IF Exists(sfile) /\ sfile = dfile
                THEN /\ last' = Call("copy_key", source_key, destination_key,
                                     FALSE, "cache", PyNone)
                     /\ UNCHANGED <<cache, lastWrite>>
                ELSE /\ cache' = IF Exists(sfile)
                                 THEN [cache EXCEPT ![dfile] =
                                            NewFile(cache[sfile].text)]
                                 ELSE cache
                     /\ last' = Call("copy_key", source_key, destination_key,
                                     TRUE, "none", PyNone)
                     /\ lastWrite' = [lastWrite EXCEPT ![destination_key] =
                                            src.body]
             /\ UNCHANGED <<now, ticks, procs, cacheDir>>

\* merge_keys' loop: the values of the sources that get finds truthy, folded
\* with dict.update from the left.
RECURSIVE MergedValue(_, _)
MergedValue(source_keys, destination_value) ==
    IF source_keys = <<>> THEN destination_value
    ELSE LET source_value == GetValue(Head(source_keys), PyNone)
         IN  MergedValue(Tail(source_keys),
                         IF Truthy(source_value)
                         THEN DictUpdate(destination_value, source_value)
                         ELSE destination_value)

\* merge_keys: the merged value is put under the destination and written to
\* its cache file.
MergeKeys(source_keys, destination_key) ==
    LET text == JsonDumps(MergedValue(source_keys, PyDict(EmptyMap)))
    IN  /\ s3' = [s3 EXCEPT ![GetObjectKey(destination_key)] = NewObject(text)]
        /\ cache' = [cache EXCEPT ![CacheFileName(destination_key)] =
                            NewFile(text)]
        /\ last' = Call("merge_keys", destination_key, source_keys,
                        TRUE, "none", PyNone)
        /\ hist' = [hist EXCEPT ![destination_key] = NoHist]
        /\ lastWrite' = [lastWrite EXCEPT ![destination_key] = text]
        /\ lastTags' = [lastTags EXCEPT ![destination_key] = NoObj]
        /\ lastLock' = [lastLock EXCEPT ![destination_key] = NoLockHist]
        /\ UNCHANGED <<now, ticks, procs, cacheDir>>

---------------------------------------------------------------------------
(* Listing and tags. *)

\* The bucket's object keys in the order list_objects_v2 returns them
\* (ascending in their UTF-8 bytes).
ObjectKeyOrder ==
    <<"logs/b.json", "s3kv/a.1.json", "s3kv/a.2.json", "s3kv/b.1.json">>

\* list_objects_v2(Prefix=prefix).get('Contents', []): the keys of the
\* objects whose key starts with the prefix, in order, one page of them;
\* no continuation token is followed.
ListObjectsV2(prefix) ==
    LET Listed(o) == s3[o] # NoObj /\ StartsWith(o, prefix)
        all == SelectSeq(ObjectKeyOrder, Listed)
    IN  IF Len(all) <= MaxKeysPerPage THEN all
        ELSE SubSeq(all, 1, MaxKeysPerPage)

\* The sequence's elements.
Range(seq) == {seq[i] : i \in 1..Len(seq)}

\* [obj['Key'][5:-5] for obj in ... if obj['Key'].endswith('.json')]
RECURSIVE KeysOf(_)
KeysOf(contents) ==
    IF contents = <<>> THEN <<>>
    ELSE IF EndsWith(Head(contents), Extension)
         THEN <<Slice(Head(contents))>> \o KeysOf(Tail(contents))
         ELSE KeysOf(Tail(contents))

\* list_keys_with_prefix: the prefix goes to the backend as it is.
ListKeysWithPrefix(prefix) ==
    /\ last' = Call("list_keys_with_prefix", "", prefix, TRUE, "none",
                    KeysOf(ListObjectsV2(prefix)))
    /\ UNCHANGED <<s3, cache, now, ticks, hist, lastWrite, lastTags,
                   lastLock, procs, cacheDir>>

\* list_keys: every object of the bucket is listed (Prefix=""), one page of
\* them, and each key ending in .json is cut by five characters at each end.
ListKeys ==
    /\ last' = Call("list_keys", "", "", TRUE, "none",
                    KeysOf(ListObjectsV2("")))
    /\ UNCHANGED <<s3, cache, now, ticks, hist, lastWrite, lastTags,
                   lastLock, procs, cacheDir>>

\* tag_key adding the tags given to the tags the object has.
TagKeyMerging(key, tags) ==
    IF s3[GetObjectKey(key)] = NoObj
    THEN /\ last' = Call("tag_key", key, tags, FALSE, "NoSuchKey", PyNone)
         /\ UNCHANGED <<s3, cache, now, ticks, hist, lastWrite, lastTags,
                        lastLock, procs, cacheDir>>
    ELSE /\ s3' = [s3 EXCEPT ![GetObjectKey(key)].tags =
                        [n \in DOMAIN @ \cup DOMAIN tags |->
                            IF n \in DOMAIN tags THEN tags[n] ELSE @[n]]]
         /\ last' = Call("tag_key", key, tags, TRUE, "none", PyNone)
         /\ lastTags' = [lastTags EXCEPT ![key] = [t |-> "tags", tags |-> tags]]
         /\ UNCHANGED <<cache, now, ticks, hist, lastWrite, lastLock, procs,
                       cacheDir>>

\* tag_key: put_object_tagging replaces the object's tag set; the backend
\* refuses it for an object that does not exist.
TagKey(key, tags) ==
    IF s3[GetObjectKey(key)] = NoObj
    THEN /\ last' = Call("tag_key", key, tags, FALSE, "NoSuchKey", PyNone)
         /\ UNCHANGED <<s3, cache, now, ticks, hist, lastWrite, lastTags,
                        lastLock, procs, cacheDir>>
    ELSE /\ s3' = [s3 EXCEPT ![GetObjectKey(key)].tags = tags]
         /\ last' = Call("tag_key", key, tags, TRUE, "none", PyNone)
         /\ lastTags' = [lastTags EXCEPT ![key] = [t |-> "tags", tags |-> tags]]
         /\ UNCHANGED <<cache, now, ticks, hist, lastWrite, lastLock, procs,
                       cacheDir>>

\* get_tags: the object's tag set as a dict.
GetTags(s3_object_key) == s3[s3_object_key].tags

\* find_keys_by_tag_value's loop over the listed objects.
RECURSIVE KeysWithTag(_, _, _)
KeysWithTag(contents, tag_key, tag_value) ==
    IF contents = <<>> THEN <<>>
    ELSE LET tags == GetTags(Head(contents))
             rest == KeysWithTag(Tail(contents), tag_key, tag_value)
         IN  IF tag_key \in DOMAIN tags /\ tags[tag_key] = tag_value
             THEN <<Slice(Head(contents))>> \o rest
             ELSE rest

\* find_keys_by_tag_value
FindKeysByTagValue(tag_key, tag_value) ==
    /\ last' = Call("find_keys_by_tag_value", tag_key, tag_value, TRUE, "none",
                    KeysWithTag(ListObjectsV2(Namespace), tag_key, tag_value))
    /\ UNCHANGED <<s3, cache, now, ticks, hist, lastWrite, lastTags,
                   lastLock, procs, cacheDir>>

---------------------------------------------------------------------------
(* Metadata probes. *)

\* What can go wrong with a head_object call whatever the bucket holds: the
\* credentials are refused, or the endpoint is not reached.
HeadFaults == {"none", "AccessDenied", "EndpointConnectionError"}

\* The number of decimal digits of a natural number.
RECURSIVE Digits(_)
Digits(n) == IF n < 10 THEN 1 ELSE 1 + Digits(n \div 10)

\* The number of characters of the members of a JSON object as json.dumps
\* writes them: "name": value, separated by a comma and a space.
RECURSIVE MembersLength(_, _)
MembersLength(members, names) ==
    IF names = {} THEN 0
    ELSE LET n == CHOOSE x \in names : TRUE
             rest == names \ {n}
         IN  Len(n) + 4 + Digits(members[n])
                + (IF rest = {} THEN 0 ELSE 2)
                + MembersLength(members, rest)

\* The ContentLength of an object whose body is the text: the braces and the
\* members.
ContentLength(text) == 2 + MembersLength(text.members, DOMAIN text.members)

\* head_object: the response, or the error raised.  A HEAD response has no
\* body, so the error raised for an object that does not exist carries the
\* HTTP status, "404", as its code: it is a ClientError, and not the
\* NoSuchKey that get_object raises.
HeadObject(object_key, fault) ==
    IF fault # "none" THEN [t |-> "error", code |-> fault]
    ELSE IF s3[object_key] = NoObj THEN [t |-> "error", code |-> "404"]
    ELSE [t |-> "response",
          ContentLength |-> ContentLength(s3[object_key].body)]

\* key_exists letting every error but the backend's "not found" through.
KeyExistsNotFoundOnly(key, fault) ==
    LET head == HeadObject(GetObjectKey(key), fault)
    IN  /\ last' = IF head.t = "response"
                   THEN Call("key_exists", key, fault, TRUE, "none", TRUE)
                   ELSE IF head.code = "404"
                   THEN Call("key_exists", key, fault, TRUE, "none", FALSE)
                   ELSE Call("key_exists", key, fault, FALSE, head.code, PyNone)
        /\ UNCHANGED <<s3, cache, now, ticks, hist, lastWrite, lastTags,
                       lastLock, procs, cacheDir>>

\* key_exists: True when head_object returns, False on any exception.
KeyExists(key, fault) ==
    LET head == HeadObject(GetObjectKey(key), fault)
    IN  /\ last' = Call("key_exists", key, fault, TRUE, "none",
                        head.t = "response")
        /\ UNCHANGED <<s3, cache, now, ticks, hist, lastWrite, lastTags,
                       lastLock, procs, cacheDir>>

\* get_key_size: the ContentLength of the response; only an error of the
\* class NoSuchKey is caught and turned into 0, any other is raised.
GetKeySize(key, fault) ==
    LET head == HeadObject(GetObjectKey(key), fault)
    IN  /\ last' = IF head.t = "response"
                   THEN Call("get_key_size", key, fault, TRUE, "none",
                             head.ContentLength)
                   ELSE IF head.code = "NoSuchKey"
                   THEN Call("get_key_size", key, fault, TRUE, "none", 0)
                   ELSE Call("get_key_size", key, fault, FALSE, head.code,
                             PyNone)
        /\ UNCHANGED <<s3, cache, now, ticks, hist, lastWrite, lastTags,
                       lastLock, procs, cacheDir>>

\* get_key_last_updated_time: a datetime made of the response's LastModified
\* (its value is not modelled); only an error of the class NoSuchKey is
\* caught and turned into 0, any other is raised.
GetKeyLastUpdatedTime(key, fault) ==
    LET head == HeadObject(GetObjectKey(key), fault)
    IN  /\ last' = IF head.t = "response"
                   THEN Call("get_key_last_updated_time", key, fault, TRUE,
                             "none", [t |-> "datetime"])
                   ELSE IF head.code = "NoSuchKey"
                   THEN Call("get_key_last_updated_time", key, fault, TRUE,
                             "none", 0)
                   ELSE Call("get_key_last_updated_time", key, fault, FALSE,
                             head.code, PyNone)
        /\ UNCHANGED <<s3, cache, now, ticks, hist, lastWrite, lastTags,
                       lastLock, procs, cacheDir>>

---------------------------------------------------------------------------
(* Operations that loop over keys. *)

\* Prefixes handed to tag_keys_with_prefix: with the namespace, as in
\* src/test.py.
TagPrefixes == {"s3kv/a", "s3kv/"}

\* The position of the first key of the list at which the loop's backend
\* call fails, 0 if there is none: the call fails at the position fail_at
\* (a fault of the backend), if the list is that long.
FailingStep(keys, fail_at) ==
    IF fail_at \in 1..Len(keys) THEN fail_at ELSE 0

\* A loop that undoes what it did when a step fails.
CompletedWithRollback(keys, fail_at) ==
    IF FailingStep(keys, fail_at) = 0 THEN Range(keys) ELSE {}

\* for key in keys: ...   The keys whose step has been completed when the
\* loop ends: all of them, or those before the step whose error ends it.
Completed(keys, fail_at) ==
    IF FailingStep(keys, fail_at) = 0 THEN Range(keys)
    ELSE {keys[i] : i \in 1..(FailingStep(keys, fail_at) - 1)}

\* tag_keys_with_prefix: tag_key on every key list_keys_with_prefix returns,
\* in order; an error of tag_key ends the loop and the call.
TagKeysWithPrefix(prefix, tags, fail_at) ==
    LET keys_to_tag == KeysOf(ListObjectsV2(prefix))
        tagged == Completed(keys_to_tag, fail_at)
        failed == FailingStep(keys_to_tag, fail_at) # 0
    IN  /\ s3' = [o \in DOMAIN s3 |->
                    IF \E k \in tagged : o = GetObjectKey(k)
                    THEN [s3[o] EXCEPT !.tags = tags] ELSE s3[o]]
        /\ lastTags' = [k \in AllKeys |->
                            IF k \in tagged
                            THEN [t |-> "tags", tags |-> tags]
                            ELSE lastTags[k]]
        /\ last' = Call("tag_keys_with_prefix", prefix,
                        [tags |-> tags, fail_at |-> fail_at], ~failed,
                        IF failed THEN "backend" ELSE "none", PyNone)
        /\ UNCHANGED <<cache, now, ticks, hist, lastWrite, lastLock, procs,
                       cacheDir>>

\* delete_by_tag: delete on every key find_keys_by_tag_value returns, in
\* order; an error of delete_object ends the loop and the call, before the
\* cache file of that key is looked at.
DeleteByTag(tag_key, tag_value, fail_at) ==
    LET keys_to_delete ==
            KeysWithTag(ListObjectsV2(Namespace), tag_key, tag_value)
        deleted == Completed(keys_to_delete, fail_at)
        failed == FailingStep(keys_to_delete, fail_at) # 0
    IN  /\ s3' = [o \in DOMAIN s3 |->
                    IF \E k \in deleted : o = GetObjectKey(k)
                    THEN NoObj ELSE s3[o]]
        /\ cache' = [f \in DOMAIN cache |->
                        IF \E k \in deleted : f = CacheFileName(k)
                        THEN NoFile ELSE cache[f]]
        /\ hist' = [k \in AllKeys |->
                        IF k \in deleted THEN Deleted(k) ELSE hist[k]]
        /\ lastWrite' = [k \in AllKeys |->
                            IF k \in deleted THEN NoObj ELSE lastWrite[k]]
        /\ lastTags' = [k \in AllKeys |->
                            IF k \in deleted THEN NoObj ELSE lastTags[k]]
        /\ lastLock' = [k \in AllKeys |->
                            IF k \in deleted THEN NoLockHist ELSE lastLock[k]]
        /\ last' = Call("delete_by_tag", tag_key,
                        [value |-> tag_value, fail_at |-> fail_at], ~failed,
                        IF failed THEN "backend" ELSE "none", PyNone)
        /\ UNCHANGED <<now, ticks, procs, cacheDir>>

---------------------------------------------------------------------------
(* Retention locks and legal holds. *)

\* A legal hold status, and a retention, as the object carries them.
LegalHold(status) == [t |-> "LegalHold", Status |-> status]
Retention(mode, until) ==
    [t |-> "Retention", Mode |-> mode, RetainUntilDate |-> until]

\* retention_days handed to place_retention_lock: 1 as in src/test.py, and 2.
RetentionDays == {1, 2}

\* What get_object_legal_hold answers for an object on which no legal hold
\* status was ever set, which depends on the backend: an error, or a
\* response without a LegalHold.
UnsetHoldReplies == {"NoSuchObjectLockConfiguration", "empty"}

\* put_object_legal_hold with the status given; the backend refuses it for
\* an object that does not exist.
PutObjectLegalHold(op, key, status) ==
    IF s3[GetObjectKey(key)] = NoObj
    THEN /\ last' = Call(op, key, PyNone, FALSE, "NoSuchKey", PyNone)
         /\ UNCHANGED <<s3, cache, now, ticks, hist, lastWrite, lastTags,
                        lastLock, procs, cacheDir>>
    ELSE /\ s3' = [s3 EXCEPT ![GetObjectKey(key)].legal_hold =
                        LegalHold(status)]
         /\ last' = Call(op, key, PyNone, TRUE, "none", PyNone)
         /\ lastLock' = [lastLock EXCEPT ![key].hold = LegalHold(status)]
         /\ UNCHANGED <<cache, now, ticks, hist, lastWrite, lastTags, procs,
                        cacheDir>>

\* apply_legal_hold
ApplyLegalHold(key) == PutObjectLegalHold("apply_legal_hold", key, "ON")

\* release_legal_hold
ReleaseLegalHold(key) == PutObjectLegalHold("release_legal_hold", key, "OFF")

\* is_legal_hold_applied: response.get('LegalHold', {}).get('Status') == 'ON';
\* an error of get_object_legal_hold is not caught.
IsLegalHoldApplied(key, unset_reply) ==
    LET obj == s3[GetObjectKey(key)]
    IN  /\ last' =
            IF obj = NoObj
            THEN Call("is_legal_hold_applied", key, unset_reply, FALSE,
                      "NoSuchKey", PyNone)
            ELSE IF obj.legal_hold = NoHold
            THEN IF unset_reply = "empty"
                 THEN Call("is_legal_hold_applied", key, unset_reply, TRUE,
                           "none", FALSE)
                 ELSE Call("is_legal_hold_applied", key, unset_reply, FALSE,
                           unset_reply, PyNone)
            ELSE Call("is_legal_hold_applied", key, unset_reply, TRUE, "none",
                      obj.legal_hold.Status = "ON")
        /\ UNCHANGED <<s3, cache, now, ticks, hist, lastWrite, lastTags,
                       lastLock, procs, cacheDir>>

\* place_retention_lock keeping the later of the existing and the new
\* RetainUntilDate.
PlaceRetentionLockExtending(key, retention_days, accepted) ==
    LET obj == s3[GetObjectKey(key)]
        retention_period == retention_days * 24 * 60 * 60
        until == now + retention_period
        kept == IF obj.retention # NoRetention
                        /\ obj.retention.RetainUntilDate > until
                THEN obj.retention.RetainUntilDate ELSE until
    IN  IF obj = NoObj \/ ~accepted
        THEN /\ last' = Call("place_retention_lock", key, retention_days,
                             FALSE,
                             IF obj = NoObj THEN "NoSuchKey" ELSE "AccessDenied",
                             PyNone)
             /\ UNCHANGED <<s3, cache, now, ticks, hist, lastWrite, lastTags,
                            lastLock, procs, cacheDir>>
        ELSE /\ s3' = [s3 EXCEPT ![GetObjectKey(key)].retention =
                            Retention("GOVERNANCE", kept)]
             /\ last' = Call("place_retention_lock", key, retention_days,
                             TRUE, "none", PyNone)
             /\ lastLock' = [lastLock EXCEPT ![key].replaced = obj.retention]
             /\ UNCHANGED <<cache, now, ticks, hist, lastWrite, lastTags,
                            procs, cacheDir>>

\* place_retention_lock: put_object_retention with the mode GOVERNANCE and
\* int(time.time()) + retention_days * 24 * 60 * 60, whatever retention the
\* object has.  The backend refuses it for an object that does not exist,
\* and may refuse it for its own reasons (the bucket has no object lock, or
\* the request shortens a retention and carries no bypass flag).
PlaceRetentionLock(key, retention_days, accepted) ==
    LET obj == s3[GetObjectKey(key)]
        retention_period == retention_days * 24 * 60 * 60
    IN  IF obj = NoObj \/ ~accepted
        THEN /\ last' = Call("place_retention_lock", key, retention_days,
                             FALSE,
                             IF obj = NoObj THEN "NoSuchKey" ELSE "AccessDenied",
                             PyNone)
             /\ UNCHANGED <<s3, cache, now, ticks, hist, lastWrite, lastTags,
                            lastLock, procs, cacheDir>>
        ELSE /\ s3' = [s3 EXCEPT ![GetObjectKey(key)].retention =
                            Retention("GOVERNANCE", now + retention_period)]
             /\ last' = Call("place_retention_lock", key, retention_days,
                             TRUE, "none", PyNone)
             /\ lastLock' = [lastLock EXCEPT ![key].replaced = obj.retention]
             /\ UNCHANGED <<cache, now, ticks, hist, lastWrite, lastTags,
                            procs, cacheDir>>

\* remove_retention_lock clearing the legal hold status with the retention.
RemoveRetentionLockAndHold(key, accepted) ==
    LET obj == s3[GetObjectKey(key)]
    IN  IF obj = NoObj \/ ~accepted
        THEN /\ last' = Call("remove_retention_lock", key, PyNone, FALSE,
                             IF obj = NoObj THEN "NoSuchKey" ELSE "AccessDenied",
                             PyNone)
             /\ UNCHANGED <<s3, cache, now, ticks, hist, lastWrite, lastTags,
                            lastLock, procs, cacheDir>>
        ELSE /\ s3' = [s3 EXCEPT ![GetObjectKey(key)] =
                            [@ EXCEPT !.retention = NoRetention,
                                      !.legal_hold = NoHold]]
             /\ last' = Call("remove_retention_lock", key, PyNone, TRUE,
                             "none", PyNone)
             /\ UNCHANGED <<cache, now, ticks, hist, lastWrite, lastTags,
                            lastLock, procs, cacheDir>>

\* remove_retention_lock: put_object_retention with an empty Retention and
\* BypassGovernanceRetention=True; the backend refuses it for an object that
\* does not exist and for a caller without the bypass permission.
RemoveRetentionLock(key, accepted) ==
    LET obj == s3[GetObjectKey(key)]
    IN  IF obj = NoObj \/ ~accepted
        THEN /\ last' = Call("remove_retention_lock", key, PyNone, FALSE,
                             IF obj = NoObj THEN "NoSuchKey" ELSE "AccessDenied",
                             PyNone)
             /\ UNCHANGED <<s3, cache, now, ticks, hist, lastWrite, lastTags,
                            lastLock, procs, cacheDir>>
        ELSE /\ s3' = [s3 EXCEPT ![GetObjectKey(key)].retention = NoRetention]
             /\ last' = Call("remove_retention_lock", key, PyNone, TRUE,
                             "none", PyNone)
             /\ UNCHANGED <<cache, now, ticks, hist, lastWrite, lastTags,
                            lastLock, procs, cacheDir>>

---------------------------------------------------------------------------
(* Calls of several callers, step by step.                                  *)
(* A caller in a call is at one of the call's backend or file system calls; *)
(* the steps of the callers interleave, and nothing is locked.  The         *)
(* records of the sequential runs (last, hist, lastWrite, lastTags,         *)
(* lastLock) are left alone: what a call has returned is in procs.          *)

\* The key the interleaved calls are about.
RaceKey == "a.1"

\* The first step of each operation.
FirstStep ==
    [op \in {"add", "delete", "clear_cache_for_key", "clear_cache",
             "get_from_cache"} |->
        CASE op = "add" -> "put_object"
          [] op = "delete" -> "delete_object"
          [] op = "clear_cache_for_key" -> "exists"
          [] op = "clear_cache" -> "exists_dir"
          [] op = "get_from_cache" -> "time"]

\* The frame of a call that begins: its arguments, its position, and its
\* local variables (current_time; the names listdir returned that the loop
\* has not gone through; the file the loop is at, and the mtime read of it;
\* the time at which add wrote its cache file), and how it ended (the error
\* raised, and the step that raised it, as the traceback tells).
NewCall(c, op, key, value) ==
    [pc |-> FirstStep[op], calls |-> procs[c].calls + 1, op |-> op,
     key |-> key, value |-> value, current_time |-> 0, names |-> {},
     file |-> "", seen |-> 0, wrote |-> -1,
     ok |-> TRUE, err |-> "none", at |-> "", ret |-> PyNone]

\* The call of the caller goes on at the step named.
Goto(c, step) == [procs EXCEPT ![c].pc = step]

\* The call of the caller returns, or raises.
Return(c, ok, err, ret) ==
    [procs EXCEPT ![c] = [@ EXCEPT !.pc = "returned", !.ok = ok, !.err = err,
                                   !.at = IF ok THEN "" ELSE procs[c].pc,
                                   !.ret = ret, !.current_time = 0,
                                   !.names = {}, !.file = "", !.seen = 0]]

\* A caller that is in no call begins one.
StartCall(c, op, key, value) ==
    /\ procs[c].pc \in {"idle", "returned"}
    /\ procs[c].calls < MaxCalls
    /\ procs' = [procs EXCEPT ![c] = NewCall(c, op, key, value)]
    /\ UNCHANGED <<s3, cache, cacheDir, now, ticks, last, hist, lastWrite,
                   lastTags, lastLock>>

\* add, line 79: put_object.
AddPutObject(c) ==
    /\ procs[c].pc = "put_object"
    /\ s3' = [s3 EXCEPT ![GetObjectKey(procs[c].key)] =
                    NewObject(JsonDumps(procs[c].value))]
    /\ procs' = Goto(c, "open_w")
    /\ UNCHANGED <<cache, cacheDir, now, ticks, last, hist, lastWrite,
                   lastTags, lastLock>>

\* add, lines 81-82: open(..., 'w') and json.dump; open fails when the
\* directory is not there.
AddOpen(c) ==
    /\ procs[c].pc = "open_w"
    /\ IF cacheDir
       THEN /\ cache' = [cache EXCEPT ![CacheFileName(procs[c].key)] =
                            NewFile(JsonDumps(procs[c].value))]
            /\ procs' = [Return(c, TRUE, "none", PyNone)
                            EXCEPT ![c].wrote = now]
       ELSE /\ procs' = Return(c, FALSE, "FileNotFoundError", PyNone)
            /\ UNCHANGED cache
    /\ UNCHANGED <<s3, cacheDir, now, ticks, last, hist, lastWrite, lastTags,
                   lastLock>>

\* delete, line 93: delete_object.
DeleteObject(c) ==
    /\ procs[c].pc = "delete_object"
    /\ s3' = [s3 EXCEPT ![GetObjectKey(procs[c].key)] = NoObj]
    /\ procs' = Goto(c, "exists")
    /\ UNCHANGED <<cache, cacheDir, now, ticks, last, hist, lastWrite,
                   lastTags, lastLock>>

\* delete, line 96, and clear_cache_for_key, line 163: os.path.exists.
CacheFileExists(c) ==
    /\ procs[c].pc = "exists"
    /\ procs' = IF Exists(CacheFileName(procs[c].key))
                THEN Goto(c, "remove")
                ELSE Return(c, TRUE, "none", PyNone)
    /\ UNCHANGED <<s3, cache, cacheDir, now, ticks, last, hist, lastWrite,
                   lastTags, lastLock>>

\* delete, line 97, and clear_cache_for_key, line 164: os.remove, which
\* fails when the file is not there any more.
CacheFileRemove(c) ==
    /\ procs[c].pc = "remove"
    /\ IF Exists(CacheFileName(procs[c].key))
       THEN /\ cache' = [cache EXCEPT ![CacheFileName(procs[c].key)] = NoFile]
            /\ procs' = Return(c, TRUE, "none", PyNone)
       ELSE /\ procs' = Return(c, FALSE, "FileNotFoundError", PyNone)
            /\ UNCHANGED cache
    /\ UNCHANGED <<s3, cacheDir, now, ticks, last, hist, lastWrite, lastTags,
                   lastLock>>

\* clear_cache, line 133: os.path.exists of the directory.
ClearCacheExists(c) ==
    /\ procs[c].pc = "exists_dir"
    /\ procs' = Goto(c, IF cacheDir THEN "rmtree" ELSE "makedirs")
    /\ UNCHANGED <<s3, cache, cacheDir, now, ticks, last, hist, lastWrite,
                   lastTags, lastLock>>

\* clear_cache, line 134: shutil.rmtree, taken as one step; it fails when
\* the directory is not there any more.
ClearCacheRmtree(c) ==
    /\ procs[c].pc = "rmtree"
    /\ IF cacheDir
       THEN /\ cache' = [f \in DOMAIN cache |-> NoFile]
            /\ cacheDir' = FALSE
            /\ procs' = Goto(c, "makedirs")
       ELSE /\ procs' = Return(c, FALSE, "FileNotFoundError", PyNone)
            /\ UNCHANGED <<cache, cacheDir>>
    /\ UNCHANGED <<s3, now, ticks, last, hist, lastWrite, lastTags, lastLock>>

\* clear_cache, line 135: os.makedirs, which fails when the directory is
\* there.
ClearCacheMakedirs(c) ==
    /\ procs[c].pc = "makedirs"
    /\ IF cacheDir
       THEN /\ procs' = Return(c, FALSE, "FileExistsError", PyNone)
            /\ UNCHANGED cacheDir
       ELSE /\ cacheDir' = TRUE
            /\ procs' = Return(c, TRUE, "none", PyNone)
    /\ UNCHANGED <<s3, cache, now, ticks, last, hist, lastWrite, lastTags,
                   lastLock>>

\* The sweep finding a file old already when its age has reached max_days.
TooOldAtMaxAge(current_time, mtime, max_days) ==
    current_time - mtime >= max_days * SecondsPerDay

\* clear_old_cache, lines 151-152: file_age > max_days * 86400.
TooOld(current_time, mtime, max_days) ==
    current_time - mtime > max_days * SecondsPerDay

\* The frames with the loop of clear_old_cache done with the file it is at:
\* at the next name, or, after the last, at get_from_cache's line 62.
NextFile(c) ==
    LET rest == procs[c].names \ {procs[c].file}
    IN  [procs EXCEPT ![c] =
            [@ EXCEPT !.names = rest, !.file = "", !.seen = 0,
                      !.pc = IF rest = {} THEN "exists_r" ELSE "isfile"]]

\* get_from_cache, line 60, clear_old_cache, line 145: time.time().
SweepTime(c) ==
    /\ procs[c].pc = "time"
    /\ procs' = [procs EXCEPT ![c] =
                    [@ EXCEPT !.current_time = now, !.pc = "exists_sweep"]]
    /\ UNCHANGED <<s3, cache, cacheDir, now, ticks, last, hist, lastWrite,
                   lastTags, lastLock>>

\* clear_old_cache, line 147: os.path.exists of the directory.
SweepExists(c) ==
    /\ procs[c].pc = "exists_sweep"
    /\ procs' = Goto(c, IF cacheDir THEN "listdir" ELSE "exists_r")
    /\ UNCHANGED <<s3, cache, cacheDir, now, ticks, last, hist, lastWrite,
                   lastTags, lastLock>>

\* clear_old_cache, line 148: os.listdir, which fails when the directory is
\* not there any more; the loop takes the names in an arbitrary order.
SweepListdir(c) ==
    /\ procs[c].pc = "listdir"
    /\ procs' =
            IF cacheDir
            THEN LET names == {f \in CacheFiles : Exists(f)}
                 IN  [procs EXCEPT ![c] =
                        [@ EXCEPT !.names = names,
                                  !.pc = IF names = {} THEN "exists_r"
                                         ELSE "isfile"]]
            ELSE Return(c, FALSE, "FileNotFoundError", PyNone)
    /\ UNCHANGED <<s3, cache, cacheDir, now, ticks, last, hist, lastWrite,
                   lastTags, lastLock>>

\* clear_old_cache, line 150: os.path.isfile of the next name.
SweepIsFile(c, file) ==
    /\ procs[c].pc = "isfile"
    /\ file \in procs[c].names
    /\ procs' = IF Exists(file)
                THEN [procs EXCEPT ![c] =
                        [@ EXCEPT !.file = file, !.pc = "getmtime"]]
                ELSE [procs EXCEPT ![c] =
                        [@ EXCEPT !.names = @ \ {file},
                                  !.pc = IF procs[c].names = {file}
                                         THEN "exists_r" ELSE "isfile"]]
    /\ UNCHANGED <<s3, cache, cacheDir, now, ticks, last, hist, lastWrite,
                   lastTags, lastLock>>

\* clear_old_cache, lines 151-152: os.path.getmtime, which fails when the
\* file is not there any more, and the comparison of the age.
SweepGetmtime(c) ==
    /\ procs[c].pc = "getmtime"
    /\ procs' =
            IF ~Exists(procs[c].file)
            THEN Return(c, FALSE, "FileNotFoundError", PyNone)
            ELSE IF TooOld(procs[c].current_time, cache[procs[c].file].mtime,
                           DefaultMaxDays)
            THEN [procs EXCEPT ![c] =
                    [@ EXCEPT !.seen = cache[procs[c].file].mtime,
                              !.pc = "remove_old"]]
            ELSE NextFile(c)
    /\ UNCHANGED <<s3, cache, cacheDir, now, ticks, last, hist, lastWrite,
                   lastTags, lastLock>>

\* clear_old_cache, line 153: os.remove, which fails when the file is not
\* there any more.
SweepRemove(c) ==
    /\ procs[c].pc = "remove_old"
    /\ IF Exists(procs[c].file)
       THEN /\ cache' = [cache EXCEPT ![procs[c].file] = NoFile]
            /\ procs' = NextFile(c)
       ELSE /\ procs' = Return(c, FALSE, "FileNotFoundError", PyNone)
            /\ UNCHANGED cache
    /\ UNCHANGED <<s3, cacheDir, now, ticks, last, hist, lastWrite, lastTags,
                   lastLock>>

\* get_from_cache, line 62: os.path.exists of the key's file.
ReadExists(c) ==
    /\ procs[c].pc = "exists_r"
    /\ procs' = IF Exists(CacheFileName(procs[c].key))
                THEN Goto(c, "open_r")
                ELSE Return(c, TRUE, "none", PyNone)
    /\ UNCHANGED <<s3, cache, cacheDir, now, ticks, last, hist, lastWrite,
                   lastTags, lastLock>>

\* get_from_cache returning None when the file it has seen is gone.
ReadOpenOrNone(c) ==
    /\ procs[c].pc = "open_r"
    /\ procs' = IF Exists(CacheFileName(procs[c].key))
                THEN Return(c, TRUE, "none",
                            JsonLoads(cache[CacheFileName(procs[c].key)].text))
                ELSE Return(c, TRUE, "none", PyNone)
    /\ UNCHANGED <<s3, cache, cacheDir, now, ticks, last, hist, lastWrite,
                   lastTags, lastLock>>

\* get_from_cache, lines 63-64: open(..., 'r'), which fails when the file is
\* not there any more, and json.load.
ReadOpen(c) ==
    /\ procs[c].pc = "open_r"
    /\ procs' = IF Exists(CacheFileName(procs[c].key))
                THEN Return(c, TRUE, "none",
                            JsonLoads(cache[CacheFileName(procs[c].key)].text))
                ELSE Return(c, FALSE, "FileNotFoundError", PyNone)
    /\ UNCHANGED <<s3, cache, cacheDir, now, ticks, last, hist, lastWrite,
                   lastTags, lastLock>>

---------------------------------------------------------------------------
(* The environment. *)

\* Time passes.
Tick(d) ==
    /\ ticks < MaxTicks
    /\ now' = now + d
    /\ ticks' = ticks + 1
    /\ last' = Call("tick", "", d, TRUE, "none", PyNone)
    /\ UNCHANGED <<s3, cache, hist, lastWrite, lastTags,
                   lastLock, procs, cacheDir>>

\* Another writer of the bucket overwrites the object of a key.
ExternalPut(key, text) ==
    /\ s3' = [s3 EXCEPT ![GetObjectKey(key)] = NewObject(text)]
    /\ last' = Call("external_put", key, text, TRUE, "none", PyNone)
    /\ hist' = [hist EXCEPT ![key] = Overwritten(hist[key], text)]
    /\ lastTags' = [lastTags EXCEPT ![key] = NoObj]
    /\ lastLock' = [lastLock EXCEPT ![key] = NoLockHist]
    /\ UNCHANGED <<cache, now, ticks, lastWrite, procs, cacheDir>>

\* Another user of the bucket puts an object outside the store's namespace.
ForeignPut(object_key, text) ==
    /\ s3' = [s3 EXCEPT ![object_key] = NewObject(text)]
    /\ last' = Call("foreign_put", object_key, text, TRUE, "none", PyNone)
    /\ UNCHANGED <<cache, now, ticks, hist, lastWrite, lastTags,
                   lastLock, procs, cacheDir>>

\* The source lists handed to merge_keys.
SourceLists(keys) ==
    UNION {[1..n -> keys] : n \in 0..MaxSources}

CoreKeys == {"a.1", "b.1"}

\* The store with failing backend and cache writes.
Next ==
    \/ \E k \in CoreKeys, v \in {Va, Vi}, put_ok, open_ok \in BOOLEAN :
            Add(k, v, put_ok, open_ok)
    \/ \E k \in CoreKeys, delete_ok \in BOOLEAN : Delete(k, delete_ok)
    \/ \E k \in CoreKeys, d \in Defaults : Get(k, d)
    \/ \E k \in CoreKeys : GetFromCache(k)
    \/ \E k \in CoreKeys : ClearCacheForKey(k)
    \/ \E s, d \in CoreKeys : CopyKey(s, d)
    \/ \E srcs \in SourceLists(CoreKeys), d \in CoreKeys : MergeKeys(srcs, d)

Spec == Init /\ [][Next]_vars

\* The store over time, with another writer of the bucket.
NextTime ==
    \/ \E k \in CoreKeys : Add(k, Va, TRUE, TRUE)
    \/ \E k \in CoreKeys : Delete(k, TRUE)
    \/ \E k \in CoreKeys, d \in Defaults : Get(k, d)
    \/ \E k \in CoreKeys : GetFromCache(k)
    \/ ClearCache
    \/ \E m \in MaxDaysArgs : ClearOldCache(m)
    \/ \E k \in CoreKeys : ClearCacheForKey(k)
    \/ \E d \in TickSteps : Tick(d)
    \/ \E k \in CoreKeys, text \in ExternalTexts : ExternalPut(k, text)

SpecTime == Init /\ [][NextTime]_vars

\* Sequential runs without failures and without another writer.
NextSeq ==
    \/ \E k \in CoreKeys, v \in {Va, Vb} : Add(k, v, TRUE, TRUE)
    \/ \E k \in CoreKeys : Delete(k, TRUE)
    \/ \E k \in CoreKeys : GetFromCache(k)
    \/ ClearCache
    \/ \E m \in MaxDaysArgs : ClearOldCache(m)
    \/ \E k \in CoreKeys : ClearCacheForKey(k)
    \/ \E s, d \in CoreKeys : CopyKey(s, d)
    \/ \E srcs \in SourceLists(CoreKeys), d \in CoreKeys : MergeKeys(srcs, d)
    \/ Tick(DefaultMaxDays * SecondsPerDay)

SpecSeq == Init /\ [][NextSeq]_vars

\* Merging: two keys are added, any keys are merged, into a key that is
\* added too or into one that is not.
NextMerge ==
    \/ \E k \in {"a.1", "a.2"}, v \in {Va, Vb, V0} : Add(k, v, TRUE, TRUE)
    \/ \E k \in AllKeys : Get(k, V0)
    \/ \E srcs \in SourceLists(AllKeys), d \in {"a.1", "b.1"} :
            MergeKeys(srcs, d)

SpecMerge == Init /\ [][NextMerge]_vars

\* Tags.
NextTag ==
    \/ \E k \in AllKeys : Add(k, V0, TRUE, TRUE)
    \/ \E k \in AllKeys : Delete(k, TRUE)
    \/ \E k \in AllKeys, tags \in TagSets : TagKey(k, tags)
    \/ \E tag_value \in {"prod", "dev"} : FindKeysByTagValue("env", tag_value)
    \/ \E p \in TagPrefixes, tags \in {TagProd, TagDev},
          fail_at \in 0..MaxKeysPerPage :
            TagKeysWithPrefix(p, tags, fail_at)
    \/ \E tag_value \in {"prod", "dev"}, fail_at \in 0..MaxKeysPerPage :
            DeleteByTag("env", tag_value, fail_at)

SpecTag == Init /\ [][NextTag]_vars

\* Listing.
NextList ==
    \/ \E k \in AllKeys : Add(k, V0, TRUE, TRUE)
    \/ \E k \in AllKeys : Delete(k, TRUE)
    \/ \E p \in Prefixes : ListKeysWithPrefix(p)
    \/ ListKeys
    \/ \E o \in ForeignObjectKeys : ForeignPut(o, JsonDumps(V0))

SpecList == Init /\ [][NextList]_vars

\* Metadata probes of keys that are added and deleted.
NextHead ==
    \/ \E k \in AllKeys, v \in {Va, Vb, V0} : Add(k, v, TRUE, TRUE)
    \/ \E k \in AllKeys : Delete(k, TRUE)
    \/ \E k \in AllKeys, fault \in HeadFaults : KeyExists(k, fault)
    \/ \E k \in AllKeys, fault \in HeadFaults : GetKeySize(k, fault)
    \/ \E k \in AllKeys, fault \in HeadFaults :
            GetKeyLastUpdatedTime(k, fault)

SpecHead == Init /\ [][NextHead]_vars

\* Legal holds on two keys that are added and deleted, and retention locks on
\* one of them, while time passes.
NextLock ==
    \/ \E k \in CoreKeys : Add(k, V0, TRUE, TRUE)
    \/ \E k \in CoreKeys : Delete(k, TRUE)
    \/ \E k \in CoreKeys : ApplyLegalHold(k)
    \/ \E k \in CoreKeys : ReleaseLegalHold(k)
    \/ \E k \in CoreKeys, reply \in UnsetHoldReplies :
            IsLegalHoldApplied(k, reply)
    \/ \E days \in RetentionDays, accepted \in BOOLEAN :
            PlaceRetentionLock("a.1", days, accepted)
    \/ \E accepted \in BOOLEAN : RemoveRetentionLock("a.1", accepted)
    \/ Tick(1)

SpecLock == Init /\ [][NextLock]_vars

\* Two callers: adds of a key and cached reads of it, which sweep, while
\* time passes.
NextSweepRace ==
    \/ \E c \in Callers, v \in {Va, Vb} : StartCall(c, "add", RaceKey, v)
    \/ \E c \in Callers : StartCall(c, "get_from_cache", RaceKey, PyNone)
    \/ \E c \in Callers : AddPutObject(c)
    \/ \E c \in Callers : AddOpen(c)
    \/ \E c \in Callers : SweepTime(c)
    \/ \E c \in Callers : SweepExists(c)
    \/ \E c \in Callers : SweepListdir(c)
    \/ \E c \in Callers, file \in CacheFiles : SweepIsFile(c, file)
    \/ \E c \in Callers : SweepGetmtime(c)
    \/ \E c \in Callers : SweepRemove(c)
    \/ \E c \in Callers : ReadExists(c)
    \/ \E c \in Callers : ReadOpen(c)
    \/ \E d \in TickSteps : Tick(d)

SpecSweepRace == Init /\ [][NextSweepRace]_vars

\* Two callers: cached reads of a key, and the calls that remove its cache
\* file (delete, clear_cache_for_key, clear_cache, and the sweep of another
\* read), after adds of the key, while time passes.
NextReadRace ==
    \/ \E c \in Callers : StartCall(c, "add", RaceKey, Va)
    \/ \E c \in Callers : StartCall(c, "get_from_cache", RaceKey, PyNone)
    \/ \E c \in Callers,
          op \in {"delete", "clear_cache_for_key", "clear_cache"} :
            StartCall(c, op, RaceKey, PyNone)
    \/ \E c \in Callers : AddPutObject(c)
    \/ \E c \in Callers : AddOpen(c)
    \/ \E c \in Callers : DeleteObject(c)
    \/ \E c \in Callers : CacheFileExists(c)
    \/ \E c \in Callers : CacheFileRemove(c)
    \/ \E c \in Callers : ClearCacheExists(c)
    \/ \E c \in Callers : ClearCacheRmtree(c)
    \/ \E c \in Callers : ClearCacheMakedirs(c)
    \/ \E c \in Callers : SweepTime(c)
    \/ \E c \in Callers : SweepExists(c)
    \/ \E c \in Callers : SweepListdir(c)
    \/ \E c \in Callers, file \in CacheFiles : SweepIsFile(c, file)
    \/ \E c \in Callers : SweepGetmtime(c)
    \/ \E c \in Callers : SweepRemove(c)
    \/ \E c \in Callers : ReadExists(c)
    \/ \E c \in Callers : ReadOpen(c)
    \/ \E d \in TickSteps : Tick(d)

SpecReadRace == Init /\ [][NextReadRace]_vars

\* Two callers: adds and deletes of a key, with no failing backend call and
\* no other writer of the bucket.
NextWriteRace ==
    \/ \E c \in Callers, v \in {Va, Vb} : StartCall(c, "add", RaceKey, v)
    \/ \E c \in Callers : StartCall(c, "delete", RaceKey, PyNone)
    \/ \E c \in Callers : AddPutObject(c)
    \/ \E c \in Callers : AddOpen(c)
    \/ \E c \in Callers : DeleteObject(c)
    \/ \E c \in Callers : CacheFileExists(c)
    \/ \E c \in Callers : CacheFileRemove(c)

SpecWriteRace == Init /\ [][NextWriteRace]_vars

---------------------------------------------------------------------------
(* The claims. *)

\* A value json.loads can return: a dict all of whose keys are strings.
IsJsonDocument(v) ==
    v.t = "dict" /\ \A k \in DOMAIN v.items : k.kt = "str"

\* C1, as stated: after a successful add(k, v) with no write or delete of k
\* since, get(k, default) returns v, for every value json.dumps accepts.
C1_RoundTripAnyValue ==
    (last.op = "get" /\ hist[last.key].kind = "added")
        => last.ret = hist[last.key].v

\* C1, amended: after a successful add(k, v) with no write or delete of k
\* since, get(k, default) returns v, whatever the cache holds, when v is a
\* JSON document (a dict whose keys are all strings).
C1_RoundTrip ==
    (last.op = "get" /\ hist[last.key].kind = "added"
                     /\ IsJsonDocument(hist[last.key].v))
        => last.ret = hist[last.key].v

\* A get of an added key whose cache entry has been cleared returns the
\* value added, not the default.
C1_Witness ==
    /\ last.op = "get"
    /\ hist[last.key].kind = "added"
    /\ hist[last.key].v = Va
    /\ last.arg = Vd
    /\ last.ret = Va
    /\ cache[CacheFileName(last.key)] = NoFile

\* C2: after a successful delete(k), and until k is written again, the
\* object of k and the cache file of k are gone: get(k, D) returns D and
\* get_from_cache(k) returns None.
C2_Deletion ==
    /\ \A k \in AllKeys :
            hist[k].kind = "deleted" =>
                /\ s3[GetObjectKey(k)] = NoObj
                /\ cache[CacheFileName(k)] = NoFile
    /\ (last.op = "get" /\ hist[last.key].kind = "deleted")
            => last.ret = last.arg
    /\ (last.op = "get_from_cache" /\ hist[last.key].kind = "deleted")
            => last.ret = PyNone

\* A get with a default document, of a key that was stored and cached and
\* has been deleted, returns the default.
C2_Witness ==
    /\ last.op = "get"
    /\ hist[last.key].kind = "deleted"
    /\ hist[last.key].had
    /\ last.arg = Vd
    /\ last.ret = Vd

\* C5: an add whose backend write fails ends with that error and leaves the
\* cache (and the bucket) as they were.
C5_AddFailureOrdering ==
    [][(last'.op = "add" /\ last'.err = "backend")
            => (~last'.ok /\ cache' = cache /\ s3' = s3)]_vars

\* An add of a new value has failed at the backend, and the key's older
\* cache entry is still there.
C5_Witness ==
    /\ last.op = "add"
    /\ last.err = "backend"
    /\ cache[CacheFileName(last.key)] # NoFile
    /\ cache[CacheFileName(last.key)].text # JsonDumps(last.arg)

\* C6, as stated: an add whose backend write succeeds ends without an error,
\* also when the cache write fails, and the bucket holds the value.
C6_CacheBestEffort ==
    (last.op = "add" /\ last.err # "backend")
        => (last.ok /\ s3[GetObjectKey(last.key)] # NoObj
                    /\ s3[GetObjectKey(last.key)].body = JsonDumps(last.arg))

\* C7: a delete whose backend call fails ends with that error and leaves the
\* cache and the bucket as they were; a delete changes the cache only when
\* its backend call has succeeded.
C7_DeleteFailureOrdering ==
    [][/\ (last'.op = "delete" /\ last'.err = "backend")
            => (~last'.ok /\ cache' = cache /\ s3' = s3)
       /\ (last'.op = "delete" /\ cache' # cache)
            => (last'.ok /\ s3'[GetObjectKey(last'.key)] = NoObj)]_vars

\* A delete has failed at the backend, and the key's cache entry and object
\* are still there.
C7_Witness ==
    /\ last.op = "delete"
    /\ last.err = "backend"
    /\ cache[CacheFileName(last.key)] # NoFile
    /\ s3[GetObjectKey(last.key)] # NoObj

\* The key was added through the store, another writer then overwrote its
\* object, and since the add no call but get_from_cache's sweep has touched
\* its cache entry.
Stale(k) == hist[k].kind = "overwritten" /\ hist[k].pristine

\* The age of the cache entry the add of k wrote.
EntryAge(k) == now - hist[k].at

\* C3: after add(k, v1) and an overwrite of the object of k to v2 by another
\* writer, get(k, default) returns v2 and leaves the cache alone; the entry
\* stays, and get_from_cache(k) returns v1, while the entry's age is at most
\* 7 days; once it is older, a get_from_cache call (of any key) leaves no
\* entry for k, and get_from_cache(k) returns None.
C3_StalenessWindow ==
    /\ [](\A k \in AllKeys : Stale(k) =>
            /\ EntryAge(k) <= DefaultMaxDays * SecondsPerDay =>
                    cache[CacheFileName(k)] =
                        [t |-> "file", text |-> JsonDumps(hist[k].v),
                         mtime |-> hist[k].at]
            /\ (last.op = "get" /\ last.key = k) =>
                    last.ret = JsonLoads(hist[k].text2)
            /\ (last.op = "get_from_cache" /\ last.key = k) =>
                    last.ret = IF EntryAge(k) <= DefaultMaxDays * SecondsPerDay
                               THEN hist[k].v ELSE PyNone
            /\ (last.op = "get_from_cache"
                    /\ EntryAge(k) > DefaultMaxDays * SecondsPerDay) =>
                    cache[CacheFileName(k)] = NoFile)
    /\ [][last'.op = "get" => cache' = cache]_vars

\* Exactly seven days after the add, get_from_cache still returns the value
\* added, which is no longer the value in the bucket.
C3_Witness ==
    /\ last.op = "get_from_cache"
    /\ Stale(last.key)
    /\ EntryAge(last.key) = DefaultMaxDays * SecondsPerDay
    /\ last.ret = Va
    /\ GetValue(last.key, PyNone) = Vb

\* More than seven days after the add, get_from_cache has removed the entry.
C3_WitnessExpired ==
    /\ last.op = "get_from_cache"
    /\ Stale(last.key)
    /\ EntryAge(last.key) > DefaultMaxDays * SecondsPerDay
    /\ last.ret = PyNone
    /\ GetValue(last.key, PyNone) = Vb

\* C4, as stated: in a run without failures and without another writer, a
\* cache entry of k holds the value last written to k through the store,
\* which is the value the bucket holds.
C4_CacheInvariant ==
    \A k \in AllKeys :
        cache[CacheFileName(k)] # NoFile =>
            /\ cache[CacheFileName(k)].text = lastWrite[k]
            /\ s3[GetObjectKey(k)] # NoObj
            /\ s3[GetObjectKey(k)].body = lastWrite[k]

\* The shallow union, biased to the right, of the texts the bucket holds
\* under the keys of a list: a member's value is that of the last key of the
\* list whose text has the member.  Keys without an object count for nothing.
UnionOfSources(source_keys) ==
    LET present == {i \in 1..Len(source_keys) :
                        s3[GetObjectKey(source_keys[i])] # NoObj}
        Members(i) == s3[GetObjectKey(source_keys[i])].body.members
        names == UNION {DOMAIN Members(i) : i \in present}
        LastWith(n) == CHOOSE i \in present :
                            /\ n \in DOMAIN Members(i)
                            /\ \A j \in present :
                                    n \in DOMAIN Members(j) => j <= i
    IN  JsonObject([n \in names |-> Members(LastWith(n))[n]])

\* A merge_keys step has put the union of the sources under the destination
\* and in its cache file, without an error.
MergedIntoDestination ==
    last'.op = "merge_keys" =>
        /\ last'.ok
        /\ s3'[GetObjectKey(last'.key)] # NoObj
        /\ s3'[GetObjectKey(last'.key)].body = UnionOfSources(last'.arg)
        /\ cache'[CacheFileName(last'.key)] # NoFile
        /\ cache'[CacheFileName(last'.key)].text = UnionOfSources(last'.arg)

StoredKeys == {k \in AllKeys : s3[GetObjectKey(k)] # NoObj}

\* Whether the key is in what find_keys_by_tag_value has returned; its tag
\* set was last set by tag_key to lastTags[k].tags.
FoundAsTagged(k) ==
    k \in Range(last.ret)
        <=> (last.key \in DOMAIN lastTags[k].tags
                /\ lastTags[k].tags[last.key] = last.arg)

\* C9, as stated: after tag_key(k, T) on an existing key, with the object
\* not written since, find_keys_by_tag_value(n, v) includes k if and only if
\* T maps n to v, T being the tag set of the last tag_key on k.
C9_TagSearchAnySize ==
    last.op = "find_keys_by_tag_value" =>
        \A k \in AllKeys : lastTags[k] # NoObj => FoundAsTagged(k)

\* C9, amended: the same, when the objects under the namespace fit in one
\* page of the backend's listing.
C9_TagSearch ==
    (last.op = "find_keys_by_tag_value"
            /\ Cardinality(StoredKeys) <= MaxKeysPerPage) =>
        \A k \in AllKeys : lastTags[k] # NoObj => FoundAsTagged(k)

\* A search for env=prod has found a key tagged env=prod and has not found
\* one whose tags were replaced by env=dev.
C9_Witness ==
    /\ last.op = "find_keys_by_tag_value"
    /\ last.arg = "prod"
    /\ Cardinality(StoredKeys) <= MaxKeysPerPage
    /\ \E k1, k2 \in AllKeys :
            /\ lastTags[k1] = [t |-> "tags", tags |-> TagProd]
            /\ lastTags[k2] = [t |-> "tags", tags |-> TagDev]
            /\ k1 \in Range(last.ret)
            /\ k2 \notin Range(last.ret)

\* C10, as stated: list_keys_with_prefix(p) returns exactly the stored keys
\* whose name starts with p.
C10_PrefixListing ==
    last.op = "list_keys_with_prefix" =>
        Range(last.ret) = {k \in StoredKeys : StartsWith(k, last.arg)}

\* The logical keys of the objects under the namespace that are in the first
\* page of the bucket's listing.
ListedStoredKeys ==
    {k \in StoredKeys : GetObjectKey(k) \in Range(ListObjectsV2(""))}

\* C11, as stated: list_keys() returns exactly the logical keys of the
\* objects under the namespace (those in the first page), each as the string
\* that was passed to add; an object outside the namespace contributes no
\* entry.
C11_KeyListing ==
    last.op = "list_keys" => Range(last.ret) = ListedStoredKeys

\* C12: key_exists(k) returns True exactly when the head_object call
\* succeeds and False, without an error, in every other case; when the call
\* meets no fault, after adds and deletes that have not failed, it returns
\* True if and only if the last of them on k was an add.
C12_KeyExists ==
    last.op = "key_exists" =>
        /\ last.ok
        /\ last.ret \in BOOLEAN
        /\ last.ret <=> (last.arg = "none" /\ s3[GetObjectKey(last.key)] # NoObj)
        /\ last.arg = "none" => (last.ret <=> hist[last.key].kind = "added")

\* key_exists of a stored key has returned False, without an error, because
\* the credentials were refused.
C12_Witness ==
    /\ last.op = "key_exists"
    /\ last.arg = "AccessDenied"
    /\ hist[last.key].kind = "added"
    /\ last.ok
    /\ last.ret = FALSE

\* C13, as stated: when head_object reports that the object of k does not
\* exist, get_key_size(k) and get_key_last_updated_time(k) return 0 without
\* an error; for a key that exists get_key_size returns the ContentLength
\* the backend reports.
C13_NotFoundNormalization ==
    /\ (last.op \in {"get_key_size", "get_key_last_updated_time"}
            /\ last.arg = "none" /\ s3[GetObjectKey(last.key)] = NoObj)
        => (last.ok /\ last.ret = 0)
    /\ (last.op = "get_key_size"
            /\ last.arg = "none" /\ s3[GetObjectKey(last.key)] # NoObj)
        => (last.ok /\ last.ret = ContentLength(s3[GetObjectKey(last.key)].body))

\* C14: copy_key(s, d) with an object under s leaves under d an object with
\* the body of s, and every other object, s too, as it was; when s has a
\* cache file, the cache file of d gets the text of that file (not the text
\* read from the bucket) and no other file changes; when s has none, the
\* cache is left as it was, a file of d too.  Without an object under s the
\* call fails and changes neither the bucket nor the cache.
C14_CopyKey ==
    [][last'.op = "copy_key" =>
        LET sobj == GetObjectKey(last'.key)
            dobj == GetObjectKey(last'.arg)
            sfile == CacheFileName(last'.key)
            dfile == CacheFileName(last'.arg)
        IN  IF s3[sobj] # NoObj
            THEN /\ s3'[dobj] # NoObj
                 /\ s3'[dobj].body = s3[sobj].body
                 /\ s3'[sobj] # NoObj
                 /\ s3'[sobj].body = s3[sobj].body
                 /\ \A o \in ObjectKeys \ {dobj} : s3'[o] = s3[o]
                 /\ IF cache[sfile] # NoFile
                    THEN /\ cache'[dfile] # NoFile
                         /\ cache'[dfile].text = cache[sfile].text
                         /\ \A f \in CacheFiles \ {dfile} :
                                cache'[f] = cache[f]
                    ELSE cache' = cache
            ELSE /\ ~last'.ok
                 /\ s3' = s3
                 /\ cache' = cache]_vars

\* A copy to another key has given the destination the text of the source's
\* cache file, which is not the text the bucket holds under either key.
C14_Witness ==
    /\ last.op = "copy_key"
    /\ last.ok
    /\ last.key # last.arg
    /\ cache[CacheFileName(last.key)] # NoFile
    /\ cache[CacheFileName(last.arg)] # NoFile
    /\ cache[CacheFileName(last.arg)].text = cache[CacheFileName(last.key)].text
    /\ s3[GetObjectKey(last.arg)].body = s3[GetObjectKey(last.key)].body
    /\ cache[CacheFileName(last.arg)].text # s3[GetObjectKey(last.arg)].body

\* C15: every get_from_cache call, of any key, removes every cache file
\* whose age since its last write is greater than 7 days and keeps every
\* file whose age is at most 7 days; what it returns, if not None, is the
\* content of a file that is at most 7 days old; it leaves the bucket alone.
C15_SweepOnRead ==
    [][last'.op = "get_from_cache" =>
        LET file == cache[CacheFileName(last'.key)]
            Age(f) == now - cache[f].mtime
        IN  /\ \A f \in CacheFiles :
                    cache'[f] =
                        IF cache[f] # NoFile
                                /\ Age(f) > DefaultMaxDays * SecondsPerDay
                        THEN NoFile ELSE cache[f]
            /\ last'.ret # PyNone =>
                    /\ file # NoFile
                    /\ now - file.mtime <= DefaultMaxDays * SecondsPerDay
                    /\ last'.ret = JsonLoads(file.text)
            /\ s3' = s3]_vars

\* A get_from_cache of one key has returned its value, written exactly 7
\* days before, and has removed the file of another key, written one second
\* earlier.
C15_Witness ==
    /\ last.op = "get_from_cache"
    /\ last.ret = Va
    /\ hist[last.key].kind = "added"
    /\ EntryAge(last.key) = DefaultMaxDays * SecondsPerDay
    /\ cache[CacheFileName(last.key)] # NoFile
    /\ \E k \in AllKeys \ {last.key} :
            /\ hist[k].kind = "added"
            /\ hist[k].pristine
            /\ EntryAge(k) = DefaultMaxDays * SecondsPerDay + 1
            /\ cache[CacheFileName(k)] = NoFile

\* C16: for a key whose object exists, is_legal_hold_applied(k) is True
\* after apply_legal_hold(k) and False after a release_legal_hold(k) that
\* follows: it tells which of the two was the last on the object, whatever
\* place_retention_lock and remove_retention_lock did to it in between.
C16_LegalHold ==
    (last.op = "is_legal_hold_applied" /\ lastLock[last.key].hold # NoHold)
        => (last.ok /\ last.ret = (lastLock[last.key].hold.Status = "ON"))

\* is_legal_hold_applied has returned False for a key whose legal hold was
\* released, and whose object carries a retention.
C16_Witness ==
    /\ last.op = "is_legal_hold_applied"
    /\ lastLock[last.key].hold = LegalHold("OFF")
    /\ s3[GetObjectKey(last.key)].retention # NoRetention
    /\ last.ret = FALSE

\* C17: a place_retention_lock(k, days) that the backend accepts at time now
\* leaves the object with the retention (GOVERNANCE, now + days * 86400),
\* whatever retention it had, an earlier one if the new date is earlier; a
\* remove_retention_lock(k) that the backend accepts leaves it without a
\* retention.
C17_RetentionLock ==
    [][/\ (last'.op = "place_retention_lock" /\ last'.ok) =>
            s3'[GetObjectKey(last'.key)].retention =
                Retention("GOVERNANCE", now + last'.arg * SecondsPerDay)
       /\ (last'.op = "remove_retention_lock" /\ last'.ok) =>
            s3'[GetObjectKey(last'.key)].retention = NoRetention]_vars

\* A lock of one day has replaced a lock that ran until a later date.
C17_Witness ==
    /\ last.op = "place_retention_lock"
    /\ last.ok
    /\ last.arg = 1
    /\ lastLock[last.key].replaced # NoRetention
    /\ s3[GetObjectKey(last.key)].retention.RetainUntilDate
            < lastLock[last.key].replaced.RetainUntilDate

\* C18: when tag_keys_with_prefix or delete_by_tag goes through the keys
\* k1..kn in order and the backend call for ki fails, the keys before ki are
\* tagged, respectively deleted from the bucket and the cache, ki and the
\* keys after it are as they were, nothing is undone, and the call ends with
\* the error of the failing call; without a failure every key is processed.
C18_PartialFailure ==
    [][/\ last'.op = "tag_keys_with_prefix" =>
            LET keys == KeysOf(ListObjectsV2(last'.key))
                at == last'.arg.fail_at
                failed == at \in 1..Len(keys)
            IN  /\ last'.ok = ~failed
                /\ failed => last'.err = "backend"
                /\ \A i \in 1..Len(keys) :
                        s3'[GetObjectKey(keys[i])] =
                            IF failed /\ i >= at
                            THEN s3[GetObjectKey(keys[i])]
                            ELSE [s3[GetObjectKey(keys[i])]
                                    EXCEPT !.tags = last'.arg.tags]
                /\ cache' = cache
       /\ last'.op = "delete_by_tag" =>
            LET keys == KeysWithTag(ListObjectsV2(Namespace), last'.key,
                                    last'.arg.value)
                at == last'.arg.fail_at
                failed == at \in 1..Len(keys)
            IN  /\ last'.ok = ~failed
                /\ failed => last'.err = "backend"
                /\ \A i \in 1..Len(keys) :
                        IF failed /\ i >= at
                        THEN /\ s3'[GetObjectKey(keys[i])] =
                                    s3[GetObjectKey(keys[i])]
                             /\ cache'[CacheFileName(keys[i])] =
                                    cache[CacheFileName(keys[i])]
                        ELSE /\ s3'[GetObjectKey(keys[i])] = NoObj
                             /\ cache'[CacheFileName(keys[i])] = NoFile]_vars

\* A delete_by_tag has failed at its second key: the first is gone from the
\* bucket and the cache, the second is there with its tag and its cache file.
C18_Witness ==
    /\ last.op = "delete_by_tag"
    /\ ~last.ok
    /\ last.arg.fail_at = 2
    /\ \E k1, k2 \in AllKeys :
            /\ hist[k1].kind = "deleted"
            /\ hist[k1].had
            /\ s3[GetObjectKey(k1)] = NoObj
            /\ cache[CacheFileName(k1)] = NoFile
            /\ s3[GetObjectKey(k2)] # NoObj
            /\ s3[GetObjectKey(k2)].tags = [n \in {last.key} |-> last.arg.value]
            /\ cache[CacheFileName(k2)] # NoFile

\* C19: nothing is locked between the sweep's reading of a file's age and
\* its removal of the file: a cache file is removed by a sweep that has found
\* the file it read older than 7 days, whatever the file is by then.  So
\* the sweep of a get_from_cache can remove the file an add has just
\* written (C19_Witness): both calls have returned, the bucket holds the
\* value added and the key has no cache file, less than 7 days after the
\* add wrote it.
C19_SweepRace ==
    [][\A f \in CacheFiles :
            (cache[f] # NoFile /\ cache'[f] = NoFile) =>
                \E c \in Callers :
                    /\ procs[c].pc = "remove_old"
                    /\ procs[c].op = "get_from_cache"
                    /\ procs[c].file = f
                    /\ procs[c].current_time - procs[c].seen
                            > DefaultMaxDays * SecondsPerDay
                    /\ procs'[c].pc # "remove_old"]_vars

\* An add and a get_from_cache of two callers have both returned without an
\* error; the bucket holds the value added, and the key has no cache file,
\* less than 7 days after the add wrote it.
C19_Witness ==
    \E a, g \in Callers :
        /\ procs[a].pc = "returned"
        /\ procs[a].op = "add"
        /\ procs[a].ok
        /\ procs[g].pc = "returned"
        /\ procs[g].op = "get_from_cache"
        /\ procs[g].ok
        /\ s3[GetObjectKey(RaceKey)] = NewObject(JsonDumps(procs[a].value))
        /\ cache[CacheFileName(RaceKey)] = NoFile
        /\ now - procs[a].wrote < DefaultMaxDays * SecondsPerDay

\* C20: get_from_cache(k) looks whether the file of k exists and opens it in
\* two steps, and the file can be removed by another caller in between: the
\* call returns None when the file is not there at the first step; once it
\* has seen the file, it returns the file's content if the file is still
\* there at the second step and fails with FileNotFoundError if it is not
\* (C20_Witness), rather than returning the value it saw or None.
C20_CacheRead ==
    [][\A c \in Callers :
        LET file == cache[CacheFileName(RaceKey)]
        IN  /\ (procs[c].pc = "exists_r" /\ procs'[c].pc = "open_r")
                    => file # NoFile
            /\ (procs[c].pc = "exists_r" /\ procs'[c].pc = "returned")
                    => (file = NoFile /\ procs'[c].ok
                                     /\ procs'[c].ret = PyNone)
            /\ (procs[c].pc = "open_r" /\ procs'[c].pc = "returned")
                    => IF file # NoFile
                       THEN /\ procs'[c].ok
                            /\ procs'[c].ret = JsonLoads(file.text)
                       ELSE /\ ~procs'[c].ok
                            /\ procs'[c].err = "FileNotFoundError"]_vars

\* A get_from_cache has failed at its open with FileNotFoundError, the file
\* it had seen having been removed by the delete of the other caller.
C20_Witness ==
    \E r, d \in Callers :
        /\ procs[r].pc = "returned"
        /\ procs[r].op = "get_from_cache"
        /\ ~procs[r].ok
        /\ procs[r].err = "FileNotFoundError"
        /\ procs[r].at = "open_r"
        /\ procs[r].calls = 1
        /\ procs[d].pc = "returned"
        /\ procs[d].op = "delete"
        /\ procs[d].ok
        /\ procs[d].calls = 2

\* No caller is in the middle of a call.
Quiescent == \A c \in Callers : procs[c].pc \in {"idle", "returned"}

\* C21, as stated: when adds and deletes of a key by two callers have
\* overlapped and every call has returned without an error, the key has a
\* cache file only if the bucket holds an object for it, and the file's text
\* is the object's body.
C21_QuiescentAgreement ==
    (/\ Quiescent
     /\ \A c \in Callers : procs[c].pc = "returned" => procs[c].ok)
        => (cache[CacheFileName(RaceKey)] # NoFile =>
                /\ s3[GetObjectKey(RaceKey)] # NoObj
                /\ s3[GetObjectKey(RaceKey)].body =
                        cache[CacheFileName(RaceKey)].text)

=============================================================================
